---- MODULE Spec2Model ----
(***************************************************************************)
(* A model of the two programs of the repository:                          *)
(*   - python_streamlit/sample_apps/streamlit_demo_app.py, the Streamlit   *)
(*     demo dashboard: every user interaction reruns the whole script in   *)
(*     the interacting session; st.cache_data / st.cache_resource and the  *)
(*     global NumPy random state are shared by all sessions of the process;*)
(*   - sample_api/app/main.py, the FastAPI echo API.                       *)
(***************************************************************************)
EXTENDS Integers, Sequences, FiniteSets, TLC

VARIABLES
    stream,         \* the NumPy generator: the unit it yields at each position
    rng,            \* np.random's global state (a position in the stream)
    cache_data,     \* st.cache_data: function name -> (argument key -> value)
    cache_resource, \* st.cache_resource: function name -> (argument key -> value)
    session_state,  \* st.session_state of every session
    widgets,        \* every session's widget values, the selected page included
    out,            \* what every session's last script run computed and displayed
    requests        \* the API's requests in flight

vars == <<stream, rng, cache_data, cache_resource, session_state, widgets, out, requests>>

(***************************************************************************)
(* Bounds of the model.                                                    *)
(***************************************************************************)
\* rows of the sales table (the code generates one per day of 2024)
NumDays == 2
\* rows of the user table (the code generates 100)
NumUsers == 2
\* the modelled generator repeats its units with this period
StreamPeriod == 3
\* browser sessions connected to the Streamlit process
NumSessions == 2

Sessions == 1..NumSessions

\* What the generator yields at one position: the draw functions below map a
\* unit to a low, a middle and a high value of their distribution.
Unit == 0..2

\* The standard-normal deviates the three units stand for.
NormalZ == <<-6, 0, 2>>

\* The argument of the Caching Demo's number input the model tries.
NumberInputs == {3}

(***************************************************************************)
(* NumPy's global random state                                             *)
(***************************************************************************)
Advance(state, n) == (state + n) % StreamPeriod

UnitAt(state, i) == stream[Advance(state, i - 1)]

\* np.random.seed(seed): the state afterwards depends on the seed alone
np_random_seed(state, seed) == seed % StreamPeriod

\* np.random.normal(loc, scale, n)
np_random_normal(state, loc, scale, n) ==
    [i \in 1..n |-> loc + NormalZ[UnitAt(state, i) + 1] * scale]

\* np.random.randint(low, high, n): integers of [low, high)
np_random_randint(state, low, high, n) ==
    [i \in 1..n |-> low + (UnitAt(state, i) * (high - low - 1)) \div 2]

\* np.random.choice(a, n)
np_random_choice(state, a, n) ==
    [i \in 1..n |-> a[(UnitAt(state, i) % Len(a)) + 1]]

\* np.random.randn(n) on the Data Visualization page: only its effect on the
\* global state matters to the rest of the program
np_random_randn(state, n) == Advance(state, n)

(***************************************************************************)
(* The mock data generators                                                *)
(***************************************************************************)
\* pd.date_range(start, end, freq='D'): midnight timestamps, in hours since
\* the start date
date_range(n) == [i \in 1..n |-> (i - 1) * 24]

\* Timestamp.date() / Series.dt.date
dt_date(ts) == ts \div 24

SeriesAbsIdentity(x) == x

\* Series.abs()
SeriesAbs(x) == IF x < 0 THEN -x ELSE x

\* Series.clip(lower, upper)
SeriesClip(x, lower, upper) ==
    IF x < lower THEN lower ELSE IF x > upper THEN upper ELSE x

\* The raw draws of generate_sales_data, with the random state they leave.
SalesDraws(state) ==
    LET dates == date_range(NumDays)
        n     == Len(dates)
        s0    == np_random_seed(state, 42)
        s1    == Advance(s0, n)
        s2    == Advance(s1, n)
        s3    == Advance(s2, n)
    IN  [date     |-> dates,
         sales    |-> np_random_normal(s0, 1000, 200, n),
         quantity |-> np_random_randint(s1, 10, 100, n),
         category |-> np_random_choice(s2, <<"Electronics", "Clothing", "Food", "Books">>, n),
         region   |-> np_random_choice(s3, <<"North", "South", "East", "West">>, n),
         rng      |-> Advance(s3, n)]

\* df = pd.DataFrame(data); df['sales'] = df['sales'].abs(): a sequence of
\* rows, each with its index label
SalesFrame(data) ==
    [i \in 1..Len(data.date) |->
        [index    |-> i - 1,
         date     |-> data.date[i],
         sales    |-> SeriesAbs(data.sales[i]),
         quantity |-> data.quantity[i],
         category |-> data.category[i],
         region   |-> data.region[i]]]

\* what a generator returns, with the random state it leaves
Generated(data, df) == [value |-> df, rng |-> data.rng]

SalesResult(data) == Generated(data, SalesFrame(data))

\* generate_sales_data()
generate_sales_data(state) == SalesResult(SalesDraws(state))

\* The raw draws of generate_user_data, with the random state they leave.
UserDraws(state) ==
    LET n  == NumUsers
        s0 == np_random_seed(state, 42)
        s1 == Advance(s0, n)
        s2 == Advance(s1, n)
        s3 == Advance(s2, n)
    IN  [age    |-> np_random_randint(s0, 18, 65, n),
         city   |-> np_random_choice(s1, <<"New York", "Los Angeles", "Chicago", "Houston", "Phoenix">>, n),
         score  |-> np_random_normal(s2, 75, 15, n),
         active |-> np_random_choice(s3, <<TRUE, FALSE>>, n),
         rng    |-> Advance(s3, n)]

\* df = pd.DataFrame(data); df['score'] = df['score'].clip(0, 100)
UsersFrame(data) ==
    [i \in 1..NumUsers |->
        [index   |-> i - 1,
         user_id |-> i,
         name    |-> <<"User", i>>,
         age     |-> data.age[i],
         city    |-> data.city[i],
         score   |-> SeriesClip(data.score[i], 0, 100),
         active  |-> data.active[i]]]

UsersResult(data) == Generated(data, UsersFrame(data))

\* generate_user_data()
generate_user_data(state) == UsersResult(UserDraws(state))

(***************************************************************************)
(* st.cache_data / st.cache_resource                                       *)
(***************************************************************************)
EmptyMap == <<>>

\* the argument key of a call without arguments
NoArgs == <<>>

CacheDataFunctions == {"generate_sales_data", "generate_user_data", "expensive_operation"}

IsCached(cache, f, key) == key \in DOMAIN cache[f]

CachePut(cache, f, key, value) ==
    [cache EXCEPT ![f] = [k \in (DOMAIN @) \cup {key} |-> IF k = key THEN value ELSE @[k]]]

ClearEveryFunction(cache, f) == [g \in DOMAIN cache |-> EmptyMap]

\* cached_function.clear(): drops the entries of that one function
CacheClear(cache, f) == [cache EXCEPT ![f] = EmptyMap]

(***************************************************************************)
(* The part of the script every run executes first (lines 25-68)           *)
(***************************************************************************)
\* "Initialize session state": each key is set only when it is missing
InitSessionState(ss) ==
    [k \in (DOMAIN ss) \cup {"counter", "cart_items", "user_data"} |->
        IF k \in DOMAIN ss THEN ss[k]
        ELSE IF k = "counter" THEN 0
        ELSE IF k = "cart_items" THEN <<>>
        ELSE EmptyMap]

\* A cache miss: the function's return value is stored and returned.
CacheMiss(cache, f, gen) ==
    [value |-> gen.value, cache |-> CachePut(cache, f, NoArgs, gen.value), rng |-> gen.rng]

CacheHit(cache, f, state) ==
    [value |-> cache[f][NoArgs], cache |-> cache, rng |-> state]

\* sales_df = generate_sales_data(), through st.cache_data
CallGenerateSalesData(cache, state) ==
    IF IsCached(cache, "generate_sales_data", NoArgs)
    THEN CacheHit(cache, "generate_sales_data", state)
    ELSE CacheMiss(cache, "generate_sales_data", generate_sales_data(state))

\* users_df = generate_user_data(), through st.cache_data
CallGenerateUserData(cache, state) ==
    IF IsCached(cache, "generate_user_data", NoArgs)
    THEN CacheHit(cache, "generate_user_data", state)
    ELSE CacheMiss(cache, "generate_user_data", generate_user_data(state))

Loaded(sales, users) ==
    [sales_df |-> sales.value, users_df |-> users.value, cache |-> users.cache,
     rng |-> users.rng]

LoadUsers(sales) == Loaded(sales, CallGenerateUserData(sales.cache, sales.rng))

\* "Load mock data": the two calls in turn
LoadMockData(cache, state) == LoadUsers(CallGenerateSalesData(cache, state))

(***************************************************************************)
(* Page 1: Dashboard                                                       *)
(***************************************************************************)
\* Series.unique()
Unique(df, col) == {df[i][col] : i \in DOMAIN df}

RECURSIVE SeqSum(_, _)
\* Series.sum()
SeqSum(df, col) ==
    IF df = <<>> THEN 0 ELSE df[1][col] + SeqSum(Tail(df), col)

\* Series.min() / Series.max() of the date column, as dates
MinDate(df) == CHOOSE d \in {dt_date(df[i].date) : i \in DOMAIN df} :
                  \A i \in DOMAIN df : d <= dt_date(df[i].date)
MaxDate(df) == CHOOSE d \in {dt_date(df[i].date) : i \in DOMAIN df} :
                  \A i \in DOMAIN df : d >= dt_date(df[i].date)

\* Series.mean(): the sum divided by the count in floating point, which is
\* not-a-number for 0 / 0
SeriesMean(df, col) ==
    IF Len(df) = 0 THEN [nan |-> TRUE, num |-> 0, den |-> 0]
    ELSE [nan |-> FALSE, num |-> SeqSum(df, col), den |-> Len(df)]

\* f"${x:,.2f}": a not-a-number formats as the text nan
FormatMoney(x) == [prefix |-> "$", text_is_nan |-> x.nan, num |-> x.num, den |-> x.den]

IsinEmptyIsAll(x, values) == values = {} \/ x \in values

\* Series.isin(values)
Isin(x, values) == x \in values

SelectionMaskEither(row, categories, regions) ==
    Isin(row.category, categories) \/ Isin(row.region, regions)

\* (sales_df['category'].isin(...)) & (sales_df['region'].isin(...))
SelectionMask(row, categories, regions) ==
    Isin(row.category, categories) /\ Isin(row.region, regions)

DateMaskOpenEnd(row, dr) ==
    dt_date(row.date) >= dr[1] /\ dt_date(row.date) < dr[2]

\* (date >= date_range[0]) & (date <= date_range[1])
DateMask(row, dr) ==
    dt_date(row.date) >= dr[1] /\ dt_date(row.date) <= dr[2]

\* isinstance(date_range, tuple) and len(date_range) == 2
DateFilterApplies(dr) == Len(dr) = 2

\* "Apply filters"
ApplyFilters(sales_df, categories, regions, dr) ==
    LET filtered_df == SelectSeq(sales_df, LAMBDA row : SelectionMask(row, categories, regions))
    IN  IF DateFilterApplies(dr)
        THEN SelectSeq(filtered_df, LAMBDA row : DateMask(row, dr))
        ELSE filtered_df

\* What st.sidebar.date_input can return for a range: no, one or two dates
\* between min_value and max_value, the first not after the second.
DateInputs(lo, hi) ==
    {<<>>} \cup {<<d>> : d \in lo..hi}
           \cup {dr \in (lo..hi) \X (lo..hi) : dr[1] <= dr[2]}

Dashboard == "Dashboard"
DataVisualization == "Data Visualization"
SessionStatePage == "Session State"
CachingDemo == "Caching Demo"
FileOperations == "File Operations"

\* the options of the sidebar radio "Select Demo"
Pages == {Dashboard, "Forms & Inputs", DataVisualization, SessionStatePage,
          CachingDemo, "Layout Examples", "Advanced Features", FileOperations}

\* The widget values of a session. The filter widgets exist only while the
\* Dashboard page is shown: Streamlit drops the state of a widget that a run
\* does not render, and creates it with its default when it is rendered again.
NotConnected == [page |-> "none", selected_categories |-> {}, selected_regions |-> {},
                 date_range |-> <<>>]

OffDashboard(p) == [page |-> p, selected_categories |-> {}, selected_regions |-> {},
                    date_range |-> <<>>]

\* the defaults of the three filter widgets (lines 98-113)
DashboardDefaults(sales_df) ==
    [page                |-> Dashboard,
     selected_categories |-> Unique(sales_df, "category"),
     selected_regions    |-> Unique(sales_df, "region"),
     date_range          |-> <<MinDate(sales_df), MaxDate(sales_df)>>]

\* "Metrics": what the page shows for the filtered frame
Metrics(w, sales_df, filtered_df) ==
        [selected_categories |-> w.selected_categories,
         selected_regions    |-> w.selected_regions,
         date_range          |-> w.date_range,
         filtered_df         |-> filtered_df,
         total_sales         |-> SeqSum(filtered_df, "sales"),
         total_sales_delta   |-> SeqSum(filtered_df, "sales") - SeqSum(sales_df, "sales"),
         total_orders        |-> Len(filtered_df),
         avg_order_value     |-> FormatMoney(SeriesMean(filtered_df, "sales")),
         total_quantity      |-> SeqSum(filtered_df, "quantity")]

\* The Dashboard page: filters, metrics
DashboardPage(w, sales_df) ==
    Metrics(w, sales_df,
            ApplyFilters(sales_df, w.selected_categories, w.selected_regions, w.date_range))

(***************************************************************************)
(* Page 3: Data Visualization (its unseeded draws)                         *)
(***************************************************************************)
DataVisualizationPage(state) ==
    np_random_randn(np_random_randn(np_random_randn(state, 10), 20), 20)

(***************************************************************************)
(* Page 4: Session State.  A click is [button, n, ...]: n is the row of a  *)
(* "Remove" button (counted from 0, as enumerate does).                    *)
(***************************************************************************)
\* a run in which no button is pressed
NoClick == [button |-> "none", n |-> 0]

\* if st.button("Decrement"): st.session_state.counter -= 1
DecrementStep(click, ss) ==
    IF click.button = "Decrement" THEN [ss EXCEPT !["counter"] = @ - 1] ELSE ss

\* if st.button("Increment"): st.session_state.counter += 1
IncrementStep(click, ss) ==
    IF click.button = "Increment" THEN [ss EXCEPT !["counter"] = @ + 1] ELSE ss

\* "Counter Example": the metric is drawn between the two buttons
CounterExample(click, ss) ==
    [metric        |-> DecrementStep(click, ss)["counter"],
     session_state |-> IncrementStep(click, DecrementStep(click, ss))]

\* list.pop() without an index
list_pop_last(list, i) == SubSeq(list, 1, Len(list) - 1)

\* list.pop(i)
list_pop(list, i) ==
    [j \in 1..(Len(list) - 1) |-> IF j <= i THEN list[j] ELSE list[j + 1]]

\* The three kinds of cart button, in script order; rerun tells that the run
\* ended in st.rerun().
ShoppingCartExample(click, new_item, ss) ==
    IF click.button = "Add to Cart" /\ new_item # ""
    THEN [session_state |-> [ss EXCEPT !["cart_items"] = Append(@, new_item)],
          rerun |-> TRUE]
    ELSE IF click.button = "Clear Cart"
    THEN [session_state |-> [ss EXCEPT !["cart_items"] = <<>>], rerun |-> TRUE]
    ELSE IF click.button = "Remove" /\ click.n < Len(ss["cart_items"])
    THEN [session_state |-> [ss EXCEPT !["cart_items"] = list_pop(@, click.n)],
          rerun |-> TRUE]
    ELSE [session_state |-> ss, rerun |-> FALSE]

\* "User Data Storage": the form's Save button
UserDataStorage(click, ss) ==
    IF click.button = "Save"
    THEN [ss EXCEPT !["user_data"] = [name      |-> click.name,
                                      email     |-> click.email,
                                      timestamp |-> click.timestamp]]
    ELSE ss

\* what the page shows at the end of a run that was not cut short
SessionStateView(metric, ss) ==
    [counter_metric |-> metric,
     cart           |-> IF ss["cart_items"] # <<>> THEN ss["cart_items"]
                        ELSE <<"Cart is empty">>,
     stored_data    |-> ss["user_data"]]

FormPart(click, metric, cart) ==
    IF cart.rerun THEN cart
    ELSE [session_state |-> UserDataStorage(click, cart.session_state),
          rerun         |-> FALSE,
          view          |-> SessionStateView(metric,
                                             UserDataStorage(click, cart.session_state))]

CartPart(click, new_item, counter) ==
    FormPart(click, counter.metric,
             ShoppingCartExample(click, new_item, counter.session_state))

\* one pass over the page's code
SessionStatePass(click, new_item, ss) ==
    CartPart(click, new_item, CounterExample(click, ss))

\* st.rerun() ends the pass and the script runs again from the top, with no
\* button pressed and the widget values kept
AfterRerun(pass, new_item) ==
    IF pass.rerun THEN SessionStatePass(NoClick, new_item, pass.session_state)
    ELSE pass

SessionStateRun(click, new_item, ss) ==
    AfterRerun(SessionStatePass(click, new_item, ss), new_item)

(***************************************************************************)
(* Page 5: Caching Demo                                                    *)
(***************************************************************************)
\* sum(range(n))
expensive_operation(n) == (n * (n - 1)) \div 2

\* time.sleep(2): the whole seconds "Time taken" shows for a call that runs
\* the function body; a cached call shows 0
SleepSeconds == 2

load_model == [model_type |-> "ML Model", version |-> "1.0"]

CachingDemoPage(click, cache, resource) ==
    LET n   == click.n
        hit == IsCached(cache, "expensive_operation", n)
    IN  IF click.button = "Compute (Cached)"
        THEN [cache_data     |-> IF hit THEN cache
                                 ELSE CachePut(cache, "expensive_operation", n,
                                               expensive_operation(n)),
              cache_resource |-> resource,
              view           |-> [button |-> click.button,
                                  result |-> IF hit THEN cache["expensive_operation"][n]
                                             ELSE expensive_operation(n),
                                  time_taken |-> IF hit THEN 0 ELSE SleepSeconds]]
        ELSE IF click.button = "Clear Cache"
        THEN [cache_data     |-> CacheClear(cache, "expensive_operation"),
              cache_resource |-> resource,
              view           |-> [button |-> click.button]]
        ELSE IF click.button = "Load Model"
        THEN [cache_data     |-> cache,
              cache_resource |-> IF IsCached(resource, "load_model", NoArgs) THEN resource
                                 ELSE CachePut(resource, "load_model", NoArgs, load_model),
              view           |-> [button |-> click.button,
                                  model  |-> IF IsCached(resource, "load_model", NoArgs)
                                             THEN resource["load_model"][NoArgs]
                                             ELSE load_model]]
        ELSE [cache_data |-> cache, cache_resource |-> resource,
              view |-> [button |-> click.button]]

(***************************************************************************)
(* Page 8: File Operations.  An uploaded file is [name, content]: name is  *)
(* <<stem, extension>>, content is the file's characters (its bytes, for   *)
(* a .txt file).                                                           *)
(***************************************************************************)
\* uploaded_file is None
NoFile == [none |-> TRUE]

\* the lines of a text: the texts between its line ends
RECURSIVE Lines(_)
Lines(text) ==
    IF text = <<>> THEN <<>>
    ELSE IF \E k \in DOMAIN text : text[k] = "\n"
    THEN LET k == CHOOSE i \in DOMAIN text :
                    text[i] = "\n" /\ \A j \in 1..(i - 1) : text[j] # "\n"
         IN  <<SubSeq(text, 1, k - 1)>> \o Lines(SubSeq(text, k + 1, Len(text)))
    ELSE <<text>>

\* the fields of a line: the texts between its commas
Fields(line) == 1 + Cardinality({k \in DOMAIN line : line[k] = ","})

\* pd.read_csv: no line at all, or a line with more fields than the first
\* data line, raises; shorter lines are filled up
read_csv_rows(rows) ==
    IF rows = <<>> THEN [ok |-> FALSE, error |-> "EmptyDataError"]
    ELSE IF \E k \in 3..Len(rows) : Fields(rows[k]) > Fields(rows[2])
    THEN [ok |-> FALSE, error |-> "ParserError"]
    ELSE [ok |-> TRUE, value |-> <<"shape", Len(rows) - 1, Fields(rows[1])>>]

read_csv(text) == read_csv_rows(Lines(text))

\* bytes.decode("utf-8"): the byte FF is part of no UTF-8 sequence
decode_utf8(bytes) ==
    IF \E k \in DOMAIN bytes : bytes[k] = "FF"
    THEN [ok |-> FALSE, error |-> "UnicodeDecodeError"]
    ELSE [ok |-> TRUE, value |-> bytes]

\* the JSON documents over the characters of the model
JsonDocuments == {<<"1">>, <<"[", "]">>, <<"[", "1", "]">>}

\* json.load: the value of a document, JSONDecodeError for any other text
json_load(text) ==
    IF text \in JsonDocuments
    THEN [ok |-> TRUE, value |-> <<"json">> \o text]
    ELSE [ok |-> FALSE, error |-> "JSONDecodeError"]

\* "Process based on file type"
ProcessUpload(file) ==
    IF file.name[2] = ".csv" THEN read_csv(file.content)
    ELSE IF file.name[2] = ".txt" THEN decode_utf8(file.content)
    ELSE IF file.name[2] = ".json" THEN json_load(file.content)
    ELSE [ok |-> TRUE, value |-> <<>>]

\* a parse failure that the page's code catches and does not show
UploadShownQuiet(file, parsed) ==
    [uploaded |-> file.name, content |-> IF parsed.ok THEN parsed.value ELSE <<>>,
     exception |-> "none", download_tab |-> TRUE, footer |-> TRUE]

\* The page with a file in the uploader.  Nothing catches an exception of
\* the parse: the run ends there, Streamlit shows the exception in the page,
\* and the Download tab and the footer of that run are not drawn.
UploadShown(file, parsed) ==
    IF parsed.ok
    THEN [uploaded |-> file.name, content |-> parsed.value, exception |-> "none",
          download_tab |-> TRUE, footer |-> TRUE]
    ELSE [uploaded |-> file.name, exception |-> parsed.error, download_tab |-> FALSE,
          footer |-> FALSE]

FileOperationsPage(file) ==
    IF file = NoFile
    THEN [uploaded |-> <<>>, exception |-> "none", download_tab |-> TRUE,
          footer |-> TRUE]
    ELSE UploadShown(file, ProcessUpload(file))

(***************************************************************************)
(* One run of the script in session s, with the widget values w of that    *)
(* run (Fresh(Dashboard) stands for a run that creates the filter widgets) *)
(* and the button clicked, if any.  The runs of different sessions are     *)
(* threads of one process; a run is one step here because the only writes  *)
(* to shared state are the cached calls, which st.cache_data and           *)
(* st.cache_resource serialise per function and argument key, and the      *)
(* random draws, which no run reaches before both tables are cached.       *)
(***************************************************************************)
\* session state kept in one place for every session
StoreGlobalState(s, ss) == [t \in DOMAIN session_state |-> ss]

\* st.session_state is the state of the session the run belongs to
StoreSessionState(s, ss) == [session_state EXCEPT ![s] = ss]

RunPage(s, w, data, demo, sess) ==
    /\ session_state' = StoreSessionState(s,
                            IF w.page = SessionStatePage THEN sess.session_state
                            ELSE InitSessionState(session_state[s]))
    /\ widgets' = [widgets EXCEPT ![s] = w]
    /\ rng' = IF w.page = DataVisualization THEN DataVisualizationPage(data.rng)
              ELSE data.rng
    /\ cache_data' = IF w.page = CachingDemo THEN demo.cache_data ELSE data.cache
    /\ cache_resource' = IF w.page = CachingDemo THEN demo.cache_resource
                         ELSE cache_resource
    /\ out' = [out EXCEPT ![s] =
                 [page     |-> w.page,
                  sales_df |-> data.sales_df,
                  users_df |-> data.users_df,
                  view     |-> IF w.page = Dashboard THEN DashboardPage(w, data.sales_df)
                               ELSE IF w.page = CachingDemo THEN demo.view
                               ELSE IF w.page = SessionStatePage THEN sess.view
                               ELSE IF w.page = FileOperations
                               THEN FileOperationsPage(w.uploaded_file)
                               ELSE EmptyMap]]
    /\ UNCHANGED <<stream, requests>>

RunLoaded(s, w0, click, data) ==
    RunPage(s,
            IF w0.page = Dashboard /\ "fresh" \in DOMAIN w0
            THEN DashboardDefaults(data.sales_df) ELSE w0,
            data,
            CachingDemoPage(click, data.cache, cache_resource),
            IF w0.page = SessionStatePage
            THEN SessionStateRun(click, w0.new_item, InitSessionState(session_state[s]))
            ELSE EmptyMap)

RunScript(s, w0, click) == RunLoaded(s, w0, click, LoadMockData(cache_data, rng))

\* a run that shows page p with its widgets at their defaults
Fresh(p) == IF p = Dashboard THEN [page |-> Dashboard, fresh |-> TRUE]
            ELSE IF p = SessionStatePage THEN OffDashboard(p) @@ [new_item |-> ""]
            ELSE IF p = FileOperations THEN OffDashboard(p) @@ [uploaded_file |-> NoFile]
            ELSE OffDashboard(p)

\* A browser opens the app: the first run of a session shows the first page.
Connect(s) ==
    /\ widgets[s] = NotConnected
    /\ RunScript(s, Fresh(Dashboard), NoClick)

\* The user picks another page in the sidebar radio.
SelectPage(s, p) ==
    /\ widgets[s] # NotConnected
    /\ widgets[s].page # p
    /\ RunScript(s, Fresh(p), NoClick)

\* An interaction that changes none of the modelled widget values (another
\* widget of the page, or a rerun from the app menu).
Rerun(s) ==
    /\ widgets[s] # NotConnected
    /\ RunScript(s, widgets[s], NoClick)

\* The user adds or removes one option of the Categories multiselect.
ChangeCategories(s, c) ==
    /\ widgets[s].page = Dashboard
    /\ c \in Unique(out[s].sales_df, "category")
    /\ RunScript(s, [widgets[s] EXCEPT !.selected_categories =
                        IF c \in @ THEN @ \ {c} ELSE @ \cup {c}], NoClick)

\* The user adds or removes one option of the Regions multiselect.
ChangeRegions(s, r) ==
    /\ widgets[s].page = Dashboard
    /\ r \in Unique(out[s].sales_df, "region")
    /\ RunScript(s, [widgets[s] EXCEPT !.selected_regions =
                        IF r \in @ THEN @ \ {r} ELSE @ \cup {r}], NoClick)

\* The user changes the Date Range input.
ChangeDateRange(s, dr) ==
    /\ widgets[s].page = Dashboard
    /\ dr \in DateInputs(MinDate(out[s].sales_df), MaxDate(out[s].sales_df))
    /\ dr # widgets[s].date_range
    /\ RunScript(s, [widgets[s] EXCEPT !.date_range = dr], NoClick)

\* The user clicks one of the three buttons of the Caching Demo page.
ClickCachingDemo(s, button, n) ==
    /\ widgets[s].page = CachingDemo
    /\ RunScript(s, widgets[s], [button |-> button, n |-> n])

\* clicks that move the counter this far from 0 are left out
MaxCount == 2

\* The user clicks "Decrement" or "Increment".
ClickCounter(s, button) ==
    /\ widgets[s].page = SessionStatePage
    /\ button = "Decrement" => session_state[s]["counter"] > -MaxCount
    /\ button = "Increment" => session_state[s]["counter"] < MaxCount
    /\ RunScript(s, widgets[s], [button |-> button, n |-> 0])

\* items the cart holds at most: "Add to Cart" on a full cart is left out
MaxCart == 2

\* what the user types into "Add item to cart"
ItemTexts == {"", "pen", "ink"}

\* The user changes the text of "Add item to cart".
TypeNewItem(s, text) ==
    /\ widgets[s].page = SessionStatePage
    /\ text # widgets[s].new_item
    /\ RunScript(s, [widgets[s] EXCEPT !.new_item = text], NoClick)

\* The user clicks "Add to Cart".
ClickAddToCart(s) ==
    /\ widgets[s].page = SessionStatePage
    /\ widgets[s].new_item = "" \/ Len(session_state[s]["cart_items"]) < MaxCart
    /\ RunScript(s, widgets[s], [button |-> "Add to Cart", n |-> 0])

\* The user clicks "Clear Cart".
ClickClearCart(s) ==
    /\ widgets[s].page = SessionStatePage
    /\ RunScript(s, widgets[s], [button |-> "Clear Cart", n |-> 0])

\* The user clicks the "Remove" button of row i (key remove_i).
ClickRemove(s, i) ==
    /\ widgets[s].page = SessionStatePage
    /\ i < Len(session_state[s]["cart_items"])
    /\ RunScript(s, widgets[s], [button |-> "Remove", n |-> i])

\* what the user fills in, and what datetime.now().isoformat() gives
FormNames == {"", "Ann"}
FormEmails == {"ann@example.org"}
Timestamps == {"2024-01-01T09:00:00", "2024-01-01T09:00:05"}

\* The user submits the form with "Save".
SaveForm(s, name, email, timestamp) ==
    /\ widgets[s].page = SessionStatePage
    /\ RunScript(s, widgets[s], [button |-> "Save", n |-> 0, name |-> name,
                                 email |-> email, timestamp |-> timestamp])

\* the files of the model
UploadedFiles ==
    {[name |-> <<"data", ".csv">>, content |-> c] :
        c \in {<<>>,
               <<"a", ",", "b", "\n", "1", ",", "2", "\n", "3">>,
               <<"a", ",", "b", "\n", "1", ",", "2", "\n", "3", ",", "4", ",", "5">>}}
    \cup {[name |-> <<"notes", ".txt">>, content |-> c] : c \in {<<"68", "69">>, <<"FF">>}}
    \cup {[name |-> <<"users", ".json">>, content |-> c] :
            c \in {<<"[", "1", "]">>, <<"[", "1">>, <<>>}}

\* The user puts a file into the uploader, or takes the file out of it.
UploadFile(s, file) ==
    /\ widgets[s].page = FileOperations
    /\ file # widgets[s].uploaded_file
    /\ RunScript(s, [widgets[s] EXCEPT !.uploaded_file = file], NoClick)

(***************************************************************************)
(* The echo API (sample_api/app/main.py)                                   *)
(*                                                                         *)
(* A request is [method, path, item_id, query, body]: query maps the names *)
(* of the query parameters present to their text, body maps the names of   *)
(* the JSON object's members present to their JSON values.                 *)
(***************************************************************************)
\* requests the server handles at the same time
MaxInflight == 1

ReqIds == 1..MaxInflight

JsonNull == [type |-> "null", value |-> "null"]
JsonString(str) == [type |-> "string", value |-> str]

DigitChars == <<"0", "1", "2", "3", "4", "5", "6", "7", "8", "9">>

IsDigit(c) == \E d \in DOMAIN DigitChars : DigitChars[d] = c

DigitValue(c) == (CHOOSE d \in DOMAIN DigitChars : DigitChars[d] = c) - 1

RECURSIVE DigitsValue(_)
DigitsValue(txt) ==
    IF txt = <<>> THEN 0
    ELSE DigitsValue(SubSeq(txt, 1, Len(txt) - 1)) * 10 + DigitValue(txt[Len(txt)])

\* the text of a query parameter as an int: the validation of the annotation
\* Optional[int]
ParseInt(txt) ==
    LET digits == IF txt # <<>> /\ txt[1] = "-" THEN Tail(txt) ELSE txt
    IN  IF digits = <<>> \/ \E i \in DOMAIN digits : ~IsDigit(digits[i])
        THEN [ok |-> FALSE, value |-> 0]
        ELSE [ok |-> TRUE,
              value |-> IF txt[1] = "-" THEN -DigitsValue(digits) ELSE DigitsValue(digits)]

QueryUnchecked(query, name, default, constraints) ==
    IF name \notin DOMAIN query THEN [ok |-> TRUE, value |-> default]
    ELSE ParseInt(query[name])

\* Query(default, ge=..., le=...): the default when the parameter is absent,
\* else its integer value when it meets every constraint
Query(query, name, default, constraints) ==
    IF name \notin DOMAIN query THEN [ok |-> TRUE, value |-> default]
    ELSE LET parsed == ParseInt(query[name])
         IN  [ok    |-> /\ parsed.ok
                        /\ \A c \in constraints :
                             IF c[1] = "ge" THEN parsed.value >= c[2]
                             ELSE parsed.value <= c[2],
              value |-> parsed.value]

ItemNameOptional(body) ==
    [ok          |-> TRUE,
     name        |-> IF "name" \in DOMAIN body THEN body["name"] ELSE JsonNull,
     description |-> IF "description" \in DOMAIN body THEN body["description"]
                     ELSE JsonNull]

\* class Item(BaseModel): name is a required str, description an optional str
\* that defaults to None
Item(body) ==
    [ok          |-> "name" \in DOMAIN body /\ body["name"].type = "string",
     name        |-> IF "name" \in DOMAIN body THEN body["name"] ELSE JsonNull,
     description |-> IF "description" \in DOMAIN body THEN body["description"]
                     ELSE JsonNull]

\* the handlers' bodies
health_check == [status |-> "healthy"]

get_item_swapped(item_id, skip, limit) ==
    [item_id |-> item_id,
     skip    |-> limit,
     limit   |-> skip,
     message |-> "GET request processed successfully"]

get_item(item_id, skip, limit) ==
    [item_id |-> item_id,
     skip    |-> skip,
     limit   |-> limit,
     message |-> "GET request processed successfully"]

create_item(item) ==
    [item_id     |-> "new_item",
     name        |-> item.name,
     description |-> item.description,
     message     |-> "POST request processed successfully"]

update_item_fixed_id(item_id, item) ==
    [item_id     |-> "new_item",
     name        |-> item.name,
     description |-> item.description,
     message     |-> "PUT request processed successfully"]

update_item(item_id, item) ==
    [item_id     |-> item_id,
     name        |-> item.name,
     description |-> item.description,
     message     |-> "PUT request processed successfully"]

\* The routes: what the framework binds for a request before it calls the
\* handler, ok when every declared parameter validates.
Bind(req) ==
    IF req.method = "GET" /\ req.path = "/health"
    THEN [ok |-> TRUE, handler |-> "health_check"]
    ELSE IF req.method = "GET"
    THEN LET skip  == Query(req.query, "skip", 0, {<<"ge", 0>>})
             limit == Query(req.query, "limit", 10, {<<"ge", 1>>, <<"le", 100>>})
         IN  [ok |-> skip.ok /\ limit.ok, handler |-> "get_item",
              item_id |-> req.item_id, skip |-> skip.value, limit |-> limit.value]
    ELSE IF req.method = "POST"
    THEN LET item == Item(req.body)
         IN  [ok |-> item.ok, handler |-> "create_item", item |-> item]
    ELSE LET item == Item(req.body)
         IN  [ok |-> item.ok, handler |-> "update_item", item_id |-> req.item_id,
              item |-> item]

\* the call of the route's handler with the bound arguments
Call(args) ==
    IF args.handler = "health_check" THEN health_check
    ELSE IF args.handler = "get_item" THEN get_item(args.item_id, args.skip, args.limit)
    ELSE IF args.handler = "create_item" THEN create_item(args.item)
    ELSE update_item(args.item_id, args.item)

NoRequest == [stage |-> "idle"]

\* The requests of the model.
ItemIds == {"abc", "123", "new_item"}

QueryTexts == [skip  |-> {<<"-", "1">>, <<"0">>, <<"5">>, <<"x">>},
               limit |-> {<<"0">>, <<"1">>, <<"1", "0", "0">>, <<"1", "0", "1">>}]

JsonValues == [name        |-> {JsonNull, JsonString("Widget"), JsonString("X")},
               description |-> {JsonNull, JsonString("Y")}]

\* the maps from some of the names of D to one of the values D gives them
Maps(D) == UNION {{m \in [S -> UNION {D[k] : k \in S}] : \A k \in S : m[k] \in D[k]}
                  : S \in SUBSET DOMAIN D}

NoBody == EmptyMap

Requests ==
    {[method |-> "GET", path |-> "/health", item_id |-> "", query |-> EmptyMap,
      body |-> NoBody]}
    \cup {[method |-> "GET", path |-> "/items/{item_id}", item_id |-> i, query |-> q,
           body |-> NoBody] : i \in ItemIds, q \in Maps(QueryTexts)}
    \cup {[method |-> "POST", path |-> "/items", item_id |-> "", query |-> EmptyMap,
           body |-> b] : b \in Maps(JsonValues)}
    \cup {[method |-> "PUT", path |-> "/items/{item_id}", item_id |-> i,
           query |-> EmptyMap, body |-> b] : i \in ItemIds, b \in Maps(JsonValues)}

\* A request arrives.
Receive(r, req) ==
    /\ requests[r].stage = "idle"
    /\ requests' = [requests EXCEPT ![r] =
                      [stage |-> "received", request |-> req, handler_ran |-> FALSE]]
    /\ UNCHANGED <<stream, rng, cache_data, cache_resource, session_state, widgets, out>>

\* The framework routes the request and validates its parameters: a request
\* that fails gets the validation error response, 422, and goes no further.
Validate(r) ==
    /\ requests[r].stage = "received"
    /\ LET args == Bind(requests[r].request)
       IN  requests' = [requests EXCEPT ![r] =
             IF args.ok
             THEN [stage |-> "validated", request |-> @.request, handler_ran |-> FALSE,
                   args |-> args]
             ELSE [stage |-> "responded", request |-> @.request, handler_ran |-> FALSE,
                   status |-> 422, response |-> [detail |-> "validation error"]]]
    /\ UNCHANGED <<stream, rng, cache_data, cache_resource, session_state, widgets, out>>

\* a handler that takes its arguments from a place every request writes to
HandleSharedArgs(r) ==
    /\ requests[r].stage = "validated"
    /\ LET last == CHOOSE q \in DOMAIN requests :
                      /\ requests[q].stage = "validated"
                      /\ \A p \in DOMAIN requests :
                            requests[p].stage = "validated" => p <= q
       IN  requests' = [requests EXCEPT ![r] =
                          [stage |-> "responded", request |-> @.request,
                           handler_ran |-> TRUE, status |-> 200,
                           response |-> Call(requests[last].args)]]
    /\ UNCHANGED <<stream, rng, cache_data, cache_resource, session_state, widgets, out>>

\* The handler runs and its return value is the response.
Handle(r) ==
    /\ requests[r].stage = "validated"
    /\ requests' = [requests EXCEPT ![r] =
                      [stage |-> "responded", request |-> @.request, handler_ran |-> TRUE,
                       status |-> 200, response |-> Call(@.args)]]
    /\ UNCHANGED <<stream, rng, cache_data, cache_resource, session_state, widgets, out>>

\* The response is sent and the request is over.
Close(r) ==
    /\ requests[r].stage = "responded"
    /\ requests' = [requests EXCEPT ![r] = NoRequest]
    /\ UNCHANGED <<stream, rng, cache_data, cache_resource, session_state, widgets, out>>

ApiNext ==
    \E r \in ReqIds :
        \/ \E req \in Requests : Receive(r, req)
        \/ Validate(r)
        \/ Handle(r)
        \/ Close(r)

\* requests the server's workers handle side by side
NumWorkers == 2

Workers == 1..NumWorkers

\* requests of the four routes around the identifier create_item returns
ConcurrentRequests ==
    {req \in Requests :
        /\ req.item_id \in {"", "abc", "new_item"}
        /\ \/ req.path = "/health"
           \/ req.method = "POST" /\ req.body \in {NoBody, [name |-> JsonString("Widget")]}
           \/ req.method = "PUT" /\ req.body = [name |-> JsonString("X"),
                                                 description |-> JsonString("Y")]
           \/ req.method = "GET" /\ req.query \in {EmptyMap, [skip |-> <<"5">>],
                                                    [limit |-> <<"0">>]}}

\* Any worker takes any step at any time.
ConcurrentNext ==
    \E r \in Workers :
        \/ \E req \in ConcurrentRequests : Receive(r, req)
        \/ Validate(r)
        \/ Handle(r)
        \/ Close(r)

(***************************************************************************)
(* Initial state                                                           *)
(***************************************************************************)
NoOutput == [page |-> "none", sales_df |-> <<>>, users_df |-> <<>>, view |-> EmptyMap]

DashInit ==
    /\ stream \in [0..(StreamPeriod - 1) -> Unit]
    /\ rng \in 0..(StreamPeriod - 1)
    /\ cache_data = [f \in CacheDataFunctions |-> EmptyMap]
    /\ cache_resource = [f \in {"load_model"} |-> EmptyMap]
    /\ session_state = [s \in Sessions |-> EmptyMap]
    /\ widgets = [s \in Sessions |-> NotConnected]
    /\ out = [s \in Sessions |-> NoOutput]

ApiInit == requests = [r \in ReqIds |-> NoRequest]

Init == DashInit /\ ApiInit

AllCategories == {"Electronics", "Clothing", "Food", "Books"}
AllRegions == {"North", "South", "East", "West"}

\* the interactions of one session with the Dashboard page's filters
FilterNext(s) ==
    \/ Connect(s)
    \/ \E c \in AllCategories : ChangeCategories(s, c)
    \/ \E r \in AllRegions : ChangeRegions(s, r)
    \/ \E dr \in DateInputs(0, NumDays - 1) : ChangeDateRange(s, dr)

\* the interactions that touch st.cache_data and the random state
CacheNext(s) ==
    \/ Connect(s)
    \/ \E p \in {Dashboard, DataVisualization, CachingDemo} : SelectPage(s, p)
    \/ Rerun(s)
    \/ \E b \in {"Compute (Cached)", "Clear Cache"} :
         \E n \in NumberInputs : ClickCachingDemo(s, b, n)

\* the interactions with the counter of the Session State page
CounterNext(s) ==
    \/ Connect(s)
    \/ \E p \in {Dashboard, SessionStatePage} : SelectPage(s, p)
    \/ Rerun(s)
    \/ \E b \in {"Decrement", "Increment"} : ClickCounter(s, b)

\* the interactions with the cart of the Session State page
CartNext(s) ==
    \/ Connect(s)
    \/ \E p \in {Dashboard, SessionStatePage} : SelectPage(s, p)
    \/ Rerun(s)
    \/ \E text \in ItemTexts : TypeNewItem(s, text)
    \/ ClickAddToCart(s)
    \/ ClickClearCart(s)
    \/ \E i \in 0..(MaxCart - 1) : ClickRemove(s, i)

\* the Save button of the form
FormNext(s) ==
    \E name \in FormNames, email \in FormEmails, timestamp \in Timestamps :
        SaveForm(s, name, email, timestamp)

\* the interactions with the uploader, in a session that also uses the
\* Session State page
UploadNext(s) ==
    \/ Connect(s)
    \/ \E p \in {SessionStatePage, FileOperations} : SelectPage(s, p)
    \/ Rerun(s)
    \/ ClickCounter(s, "Increment")
    \/ TypeNewItem(s, "pen")
    \/ ClickAddToCart(s)
    \/ FormNext(s)
    \/ \E file \in UploadedFiles \cup {NoFile} : UploadFile(s, file)

\* the interactions of a session that write session state or a cache
SharedNext(s) ==
    \/ Connect(s)
    \/ \E p \in {SessionStatePage, CachingDemo} : SelectPage(s, p)
    \/ ClickCounter(s, "Increment")
    \/ TypeNewItem(s, "pen")
    \/ ClickAddToCart(s)
    \/ ClickClearCart(s)
    \/ SaveForm(s, "Ann", "ann@example.org", "2024-01-01T09:00:00")
    \/ \E b \in {"Compute (Cached)", "Clear Cache", "Load Model"} :
         \E n \in NumberInputs : ClickCachingDemo(s, b, n)

SessionNext(s) ==
    \/ FilterNext(s)
    \/ \E p \in Pages : SelectPage(s, p)
    \/ Rerun(s)
    \/ \E b \in {"Compute (Cached)", "Clear Cache", "Load Model"} :
         \E n \in NumberInputs : ClickCachingDemo(s, b, n)
    \/ CounterNext(s)
    \/ CartNext(s)
    \/ FormNext(s)
    \/ \E file \in UploadedFiles \cup {NoFile} : UploadFile(s, file)

Next == (\E s \in Sessions : SessionNext(s)) \/ ApiNext

\* the two programs side by side
Spec == Init /\ [][Next]_vars

\* the API alone (it is a separate process: the dashboard's generator is
\* fixed to one value, nothing of the API reads it)
ApiInitOnly ==
    /\ Init
    /\ stream = [i \in 0..(StreamPeriod - 1) |-> 0]
    /\ rng = 0

ApiSpec == ApiInitOnly /\ [][ApiNext]_vars

\* the API with several requests in flight
ConcurrentInit ==
    /\ DashInit
    /\ stream = [i \in 0..(StreamPeriod - 1) |-> 0]
    /\ rng = 0
    /\ requests = [r \in Workers |-> NoRequest]

ConcurrentSpec == ConcurrentInit /\ [][ConcurrentNext]_vars

\* the Session State page's counter in one session
CounterSpec == Init /\ [][CounterNext(1)]_vars

\* the Session State page's cart in one session
CartSpec == Init /\ [][CartNext(1)]_vars

\* the dashboard started with one of its random streams
OneStreamInit ==
    /\ Init
    /\ stream = [i \in 0..(StreamPeriod - 1) |-> i % 3]
    /\ rng = 0

\* uploads in one session
UploadSpec == OneStreamInit /\ [][UploadNext(1)]_vars

\* every session, writing its session state and the caches
SharedSpec == OneStreamInit /\ [][\E s \in Sessions : SharedNext(s)]_vars

\* one session working with the Dashboard page
FilterSpec == Init /\ [][FilterNext(1)]_vars

\* every session, on the pages that use the caches and the random state
CacheSpec == Init /\ [][\E s \in Sessions : CacheNext(s)]_vars

(***************************************************************************)
(* The claims about the API                                                *)
(***************************************************************************)
IsGetItem(req) == req.method = "GET" /\ req.path = "/items/{item_id}"

HasBody(req) == req.method \in {"POST", "PUT"}

\* the request went through the framework's validation
Validated(r) == requests[r].stage \in {"validated", "responded"}

Rejected(r) ==
    /\ requests[r].stage = "responded"
    /\ requests[r].status = 422
    /\ ~requests[r].handler_ran

Succeeded(r) == requests[r].stage = "responded" /\ requests[r].status = 200

\* the integer a query parameter of the request denotes, when it is given
Given(req, name) == name \in DOMAIN req.query /\ ParseInt(req.query[name]).ok

Value(req, name) == ParseInt(req.query[name]).value

OutOfRange(req) ==
    \/ Given(req, "skip") /\ Value(req, "skip") < 0
    \/ Given(req, "limit") /\ (Value(req, "limit") < 1 \/ Value(req, "limit") > 100)

\* C1: a GET /items/{item_id} request with skip < 0, limit < 1 or limit > 100
\* is rejected with the validation error and its handler body never runs; no
\* success response of get_item carries an out-of-range skip or limit.
C1_OutOfRangeRejected ==
    \A r \in ReqIds :
        Validated(r) /\ IsGetItem(requests[r].request) =>
            /\ OutOfRange(requests[r].request) => Rejected(r)
            /\ Succeeded(r) => /\ requests[r].response.skip >= 0
                               /\ requests[r].response.limit >= 1
                               /\ requests[r].response.limit <= 100

C1_Witness ==
    \E r \in ReqIds :
        /\ Rejected(r)
        /\ IsGetItem(requests[r].request)
        /\ Given(requests[r].request, "skip")
        /\ Value(requests[r].request, "skip") < 0
        /\ "limit" \notin DOMAIN requests[r].request.query

\* C8: a POST /items or PUT /items/{item_id} request whose body lacks name is
\* rejected as a validation failure without running the handler body; a body
\* with a name (a string) and no description is accepted.
C8_NameRequired ==
    \A r \in ReqIds :
        Validated(r) /\ HasBody(requests[r].request) =>
            LET body == requests[r].request.body
            IN  /\ "name" \notin DOMAIN body => Rejected(r)
                /\ ( /\ "name" \in DOMAIN body
                     /\ body["name"].type = "string"
                     /\ "description" \notin DOMAIN body )
                   => ~Rejected(r) /\ (requests[r].stage = "responded" => Succeeded(r))

C8_Witness ==
    \E r \in ReqIds :
        /\ Rejected(r)
        /\ requests[r].request.method = "PUT"
        /\ "name" \notin DOMAIN requests[r].request.body
        /\ "description" \in DOMAIN requests[r].request.body

\* C9: the response of an accepted GET /items/{item_id} carries the request's
\* item_id, skip and limit and the message "GET request processed
\* successfully"; skip is 0 when omitted and limit is 10 when omitted.
C9_GetEchoesParameters ==
    \A r \in ReqIds :
        Succeeded(r) /\ IsGetItem(requests[r].request) =>
            LET req == requests[r].request
                res == requests[r].response
            IN  /\ res.item_id = req.item_id
                /\ res.skip = IF "skip" \in DOMAIN req.query THEN Value(req, "skip") ELSE 0
                /\ res.limit = IF "limit" \in DOMAIN req.query THEN Value(req, "limit")
                               ELSE 10
                /\ res.message = "GET request processed successfully"
                /\ DOMAIN res = {"item_id", "skip", "limit", "message"}

C9_Witness ==
    \E r \in ReqIds :
        /\ Succeeded(r)
        /\ IsGetItem(requests[r].request)
        /\ "skip" \notin DOMAIN requests[r].request.query
        /\ "limit" \in DOMAIN requests[r].request.query
        /\ requests[r].response.limit = 100

\* C10: for an accepted body, create_item and update_item return name and
\* description unchanged (description null when omitted) with the handler's
\* message; item_id is "new_item" for create_item and the path identifier
\* for update_item.
C10_CreateUpdateEcho ==
    \A r \in ReqIds :
        Succeeded(r) /\ HasBody(requests[r].request) =>
            LET req == requests[r].request
                res == requests[r].response
            IN  /\ res.name = req.body["name"]
                /\ res.description = IF "description" \in DOMAIN req.body
                                     THEN req.body["description"] ELSE JsonNull
                /\ req.method = "POST" =>
                     /\ res.item_id = "new_item"
                     /\ res.message = "POST request processed successfully"
                /\ req.method = "PUT" =>
                     /\ res.item_id = req.item_id
                     /\ res.message = "PUT request processed successfully"

C10_Witness ==
    \E r \in ReqIds :
        /\ Succeeded(r)
        /\ requests[r].request.method = "PUT"
        /\ requests[r].request.item_id = "123"
        /\ "description" \notin DOMAIN requests[r].request.body
        /\ requests[r].response.description = JsonNull

(***************************************************************************)
(* The claims about the dashboard                                          *)
(***************************************************************************)
OnDashboard(s) == out[s].page = Dashboard

\* the positions in sales_df of the rows of a filtered frame
Positions(df) == {df[k].index + 1 : k \in DOMAIN df}

\* C2 as stated: a dimension with nothing selected filters as if every value
\* of that dimension were selected.
C2_EmptySelectionIsSelectAll ==
    \A s \in Sessions :
        OnDashboard(s) =>
            LET v  == out[s].view
                df == out[s].sales_df
            IN  v.selected_categories = {} \/ v.selected_regions = {} =>
                  v.filtered_df =
                    ApplyFilters(df,
                        IF v.selected_categories = {} THEN Unique(df, "category")
                        ELSE v.selected_categories,
                        IF v.selected_regions = {} THEN Unique(df, "region")
                        ELSE v.selected_regions,
                        v.date_range)

\* C2, amended: a dimension with nothing selected selects no row, so the
\* filtered subset is empty; all values are selected only by the widgets'
\* default, which pre-selects every value present in the table.
C2_EmptySelectionSelectsNothing ==
    \A s \in Sessions :
        OnDashboard(s) =>
            LET v == out[s].view
            IN  v.selected_categories = {} \/ v.selected_regions = {} =>
                  v.filtered_df = <<>> /\ v.total_orders = 0

C2_Witness ==
    \E s \in Sessions :
        /\ OnDashboard(s)
        /\ out[s].view.selected_categories = {}
        /\ out[s].view.selected_regions = Unique(out[s].sales_df, "region")
        /\ Len(out[s].view.date_range) = 2
        /\ out[s].view.filtered_df = <<>>

\* C3 as stated: on an empty filtered subset the summary statistics show
\* count 0, sum 0 and a mean that is a number or a "no data" flag, never a
\* not-a-number presented as a figure.
C3_EmptySubsetStatistics ==
    \A s \in Sessions :
        OnDashboard(s) /\ out[s].view.filtered_df = <<>> =>
            /\ out[s].view.total_orders = 0
            /\ out[s].view.total_sales = 0
            /\ ~out[s].view.avg_order_value.text_is_nan

\* C4: with every category and every region selected and the date range
\* (earliest date, latest date), the filtered subset is the sales table.
C4_FullSelectionIsIdentity ==
    \A s \in Sessions :
        OnDashboard(s) =>
            LET v  == out[s].view
                df == out[s].sales_df
            IN  ( /\ v.selected_categories = {df[i].category : i \in DOMAIN df}
                  /\ v.selected_regions = {df[i].region : i \in DOMAIN df}
                  /\ v.date_range = <<MinDate(df), MaxDate(df)>> )
                => v.filtered_df = df

C4_Witness ==
    \E s \in Sessions :
        /\ OnDashboard(s)
        /\ Cardinality(out[s].view.selected_categories) = 2
        /\ out[s].view.selected_regions = Unique(out[s].sales_df, "region")
        /\ out[s].view.date_range = <<0, NumDays - 1>>
        /\ out[s].view.filtered_df = out[s].sales_df
        /\ Len(out[s].sales_df) = NumDays

\* C5: the filtered subset is exactly the rows with category in C, region in
\* R and, when both ends of the date interval are chosen, d0 <= date <= d1;
\* with fewer than two ends chosen the date is not tested.  The rows keep
\* their order and none is repeated.
C5_FilteredSubsetExact ==
    \A s \in Sessions :
        OnDashboard(s) =>
            LET v  == out[s].view
                df == out[s].sales_df
                f  == v.filtered_df
                dr == v.date_range
                expected == {i \in DOMAIN df :
                               /\ df[i].category \in v.selected_categories
                               /\ df[i].region \in v.selected_regions
                               /\ Len(dr) = 2 =>
                                    /\ dr[1] * 24 <= df[i].date
                                    /\ df[i].date < (dr[2] + 1) * 24}
            IN  /\ Positions(f) = expected
                /\ \A k \in DOMAIN f : f[k] = df[f[k].index + 1]
                /\ \A j, k \in DOMAIN f : j < k => f[j].index < f[k].index

C5_Witness ==
    \E s \in Sessions :
        /\ OnDashboard(s)
        /\ Len(out[s].view.date_range) = 1
        /\ out[s].view.date_range[1] = 0
        /\ Len(out[s].view.filtered_df) = 1
        /\ out[s].view.filtered_df[1].index = NumDays - 1

SalesCached == IsCached(cache_data, "generate_sales_data", NoArgs)
UsersCached == IsCached(cache_data, "generate_user_data", NoArgs)

CachedSales == cache_data["generate_sales_data"][NoArgs]
CachedUsers == cache_data["generate_user_data"][NoArgs]

\* C6: every generated sales record has sales >= 0 and every generated user
\* record has 0 <= score <= 100 and 18 <= age < 65, whatever the raw draws.
C6_GeneratedRanges ==
    /\ SalesCached => \A i \in DOMAIN CachedSales : CachedSales[i].sales >= 0
    /\ UsersCached => \A i \in DOMAIN CachedUsers :
                         /\ CachedUsers[i].score >= 0
                         /\ CachedUsers[i].score <= 100
                         /\ CachedUsers[i].age >= 18
                         /\ CachedUsers[i].age < 65

C6_Witness ==
    /\ SalesCached
    /\ UsersCached
    /\ \E i \in 1..NumDays : SalesDraws(rng).sales[i] < 0
    /\ \E i \in 1..NumUsers : UserDraws(rng).score[i] > 100
    /\ \E i \in 1..NumUsers : UserDraws(rng).score[i] < 0
    /\ \E i \in 1..NumUsers : CachedUsers[i].age = 64

\* C7: the two tables are computed on the first run and never change after
\* it: every step leaves them cached, a cached table stays as it is, every
\* run sees the cached tables, and generating them again in the random state
\* of the moment would give the same records.
C7_TablesFixedAfterFirstRun ==
    [][ /\ IsCached(cache_data', "generate_sales_data", NoArgs)
        /\ IsCached(cache_data', "generate_user_data", NoArgs)
        /\ SalesCached => cache_data'["generate_sales_data"] = cache_data["generate_sales_data"]
        /\ UsersCached => cache_data'["generate_user_data"] = cache_data["generate_user_data"]
        /\ generate_sales_data(rng').value = cache_data'["generate_sales_data"][NoArgs]
        /\ generate_user_data(rng').value = cache_data'["generate_user_data"][NoArgs]
        /\ \A s \in Sessions :
             out'[s].page # "none" =>
                /\ out'[s].sales_df = cache_data'["generate_sales_data"][NoArgs]
                /\ out'[s].users_df = cache_data'["generate_user_data"][NoArgs]
      ]_vars

C7_Witness ==
    \E s, t \in Sessions :
        /\ out[s].page = CachingDemo
        /\ out[s].view.button = "Clear Cache"
        /\ out[t].page = DataVisualization
        /\ rng # 42 % StreamPeriod
        /\ SalesCached
        /\ out[t].sales_df = CachedSales

(***************************************************************************)
(* The claim about requests handled side by side                           *)
(***************************************************************************)
\* the status and response of a request when it is the only one handled
Alone(req) ==
    IF Bind(req).ok THEN [status |-> 200, response |-> Call(Bind(req))]
    ELSE [status |-> 422, response |-> [detail |-> "validation error"]]

IsCreate(req) == req.method = "POST" /\ req.path = "/items"

\* C11: whatever requests are in flight and however their steps interleave,
\* the status and response of every request are those it gets when handled
\* alone; in particular a get or update of the identifier a create returned
\* is answered as it is without the create.
C11_ResponseAsAlone ==
    \A r \in DOMAIN requests :
        requests[r].stage = "responded" =>
            /\ requests[r].status = Alone(requests[r].request).status
            /\ requests[r].response = Alone(requests[r].request).response

\* a create has been answered, and so has a get or update of its identifier
C11_Witness ==
    \E q, r \in DOMAIN requests :
        /\ q # r
        /\ Succeeded(q) /\ IsCreate(requests[q].request)
        /\ Succeeded(r) /\ ~IsCreate(requests[r].request)
        /\ requests[r].request.item_id = requests[q].response.item_id
        /\ requests[r].response.item_id = "new_item"

(***************************************************************************)
(* The claim about what sessions share                                     *)
(***************************************************************************)
\* What session t is shown, holds, and would be shown by its next click on
\* "Compute (Cached)" or "Load Model".
Observe(t) ==
    [shown   |-> out[t],
     state   |-> session_state[t],
     compute |-> [n \in NumberInputs |->
                    CachingDemoPage([button |-> "Compute (Cached)", n |-> n],
                                    cache_data, cache_resource).view],
     model   |-> CachingDemoPage([button |-> "Load Model", n |-> 0],
                                 cache_data, cache_resource).view]

\* C12 as stated: no counter click, cart edit, form save, "Compute
\* (Cached)", "Clear Cache" or "Load Model" of one session changes anything
\* another session can observe.
C12_NothingObservableShared ==
    [][\A s \in Sessions :
         SharedNext(s) => \A t \in Sessions \ {s} : Observe(t)' = Observe(t)]_vars

\* C12, amended: no action of one session changes the session state, the
\* widget values or the displayed output of another session, and the
\* generators' memoized tables never change once computed (the cache entries
\* of expensive_operation and load_model are shared and do change).
C12_SessionStatePrivate ==
    [][\A s \in Sessions :
         SharedNext(s) =>
            /\ \A t \in Sessions \ {s} : /\ session_state'[t] = session_state[t]
                                          /\ widgets'[t] = widgets[t]
                                          /\ out'[t] = out[t]
            /\ SalesCached => SalesCached' /\ CachedSales' = CachedSales
            /\ UsersCached => UsersCached' /\ CachedUsers' = CachedUsers]_vars

\* two sessions on the Session State page hold different counters and carts
C12_Witness ==
    /\ widgets[1].page = SessionStatePage
    /\ widgets[2].page = SessionStatePage
    /\ session_state[1]["counter"] = 2
    /\ session_state[2]["counter"] = 0
    /\ session_state[1]["cart_items"] = <<"pen">>
    /\ session_state[2]["cart_items"] = <<>>
    /\ session_state[1]["user_data"] = EmptyMap
    /\ session_state[2]["user_data"] # EmptyMap
    /\ IsCached(cache_data, "expensive_operation", 3)

(***************************************************************************)
(* The claim about uploads                                                 *)
(***************************************************************************)
\* the uploader of session s holds a .csv or .json file that does not parse
ParseFails(s) ==
    /\ widgets[s].page = FileOperations
    /\ widgets[s].uploaded_file # NoFile
    /\ widgets[s].uploaded_file.name[2] \in {".csv", ".json"}
    /\ ~ProcessUpload(widgets[s].uploaded_file).ok

\* C13: a run of the File Operations page with an unparsable .csv or .json
\* file in the uploader shows an error and leaves counter, cart_items and
\* user_data as they were; the session's next interaction runs as usual: the
\* Session State page shows the kept state, the File Operations page with no
\* file or a file that parses is drawn in full.
C13_ParseFailureShown ==
    [][\A s \in Sessions :
         /\ ParseFails(s)' =>
               /\ out'[s].page = FileOperations
               /\ out'[s].view.exception \in {"EmptyDataError", "ParserError",
                                               "JSONDecodeError"}
               /\ session_state'[s] = session_state[s]
         /\ ParseFails(s) /\ widgets'[s].page = SessionStatePage =>
               /\ session_state'[s] = session_state[s]
               /\ out'[s].view = SessionStateView(session_state[s]["counter"],
                                                  session_state[s])
         /\ ( /\ ParseFails(s)
              /\ widgets'[s].page = FileOperations
              /\ \/ widgets'[s].uploaded_file = NoFile
                 \/ ProcessUpload(widgets'[s].uploaded_file).ok ) =>
               /\ session_state'[s] = session_state[s]
               /\ out'[s].view.exception = "none"
               /\ out'[s].view.download_tab
               /\ out'[s].view.footer]_vars

\* a session with a counter, a cart and saved form data has a malformed CSV
\* file in the uploader
C13_Witness ==
    /\ ParseFails(1)
    /\ out[1].view.exception = "ParserError"
    /\ session_state[1]["counter"] = 2
    /\ session_state[1]["cart_items"] = <<"pen">>
    /\ session_state[1]["user_data"] # EmptyMap

(***************************************************************************)
(* The claim about the cart                                                *)
(***************************************************************************)
\* list is rest with the element x put back in at position i (from 0)
PutBack(rest, i, x) == SubSeq(rest, 1, i) \o <<x>> \o SubSeq(rest, i + 1, Len(rest))

CartItems(s) == session_state[s]["cart_items"]

\* C14: each step changes cart_items as its cart action says: "Add to Cart"
\* appends the typed text when it is not empty (also when the cart holds it
\* already) and changes nothing when it is empty, "Remove" of row i takes
\* out the element at index i alone and keeps the order of the others,
\* "Clear Cart" leaves the empty list, and every other run (a rerun, a page
\* change, typing) leaves the list as it is; the page shows the list.
C14_CartReplaysActions ==
    [][\A s \in Sessions :
         /\ ClickAddToCart(s) =>
               CartItems(s)' = IF widgets[s].new_item # ""
                               THEN Append(CartItems(s), widgets[s].new_item)
                               ELSE CartItems(s)
         /\ ClickClearCart(s) => CartItems(s)' = <<>>
         /\ \A i \in 0..(MaxCart - 1) :
               ClickRemove(s, i) =>
                   /\ Len(CartItems(s)') = Len(CartItems(s)) - 1
                   /\ CartItems(s) = PutBack(CartItems(s)', i, CartItems(s)[i + 1])
         /\ ( /\ widgets[s] # NotConnected
              /\ ~ClickAddToCart(s)
              /\ ~ClickClearCart(s)
              /\ \A i \in 0..(MaxCart - 1) : ~ClickRemove(s, i) ) =>
               CartItems(s)' = CartItems(s)
         /\ widgets'[s].page = SessionStatePage =>
               out'[s].view.cart = IF CartItems(s)' = <<>> THEN <<"Cart is empty">>
                                   ELSE CartItems(s)']_vars

\* the cart holds the same text twice, and the text box another one
C14_Witness ==
    /\ widgets[1].page = SessionStatePage
    /\ widgets[1].new_item = "ink"
    /\ session_state[1]["cart_items"] = <<"pen", "pen">>
    /\ out[1].view.cart = <<"pen", "pen">>

(***************************************************************************)
(* The claim about the counter                                             *)
(***************************************************************************)
\* C15: after every run of the Session State page the Counter metric shows
\* the session's counter with that run's click applied, for a click on
\* "Increment" as for a click on "Decrement".
C15_MetricShowsCounter ==
    \A s \in Sessions :
        out[s].page = SessionStatePage =>
            out[s].view.counter_metric = session_state[s]["counter"]
====
